---- MODULE Spec2Model ----
(***************************************************************************)
(* PostgresChatClient (src/api/src/api/clients/postgres.py): a chat store  *)
(* on one PostgreSQL database, used by several client instances, each with *)
(* its own autocommit connection.                                          *)
(*                                                                         *)
(* Granularity.  Every SQL statement commits on its own (autocommit=True,  *)
(* line 40), so a step of the model is one data statement together with    *)
(* the client-local code around it.  create_chat, get_chat, get_messages,  *)
(* connect, close and await_up touch at most one data statement and are    *)
(* one step each; add_message (SELECT, UPDATE, INSERT) is three steps and  *)
(* delete_chat (SELECT, DELETE) two, so that other clients' statements can *)
(* fall between them.  The connection check, the schema bootstrap and the  *)
(* readiness loop touch no row and are folded into the step of the first   *)
(* data statement that follows them.                                       *)
(*                                                                         *)
(* Environment.  Any round trip to the store may fail (an unreachable or   *)
(* restarting server); a failed round trip may leave the handle open or    *)
(* closed.  The wall clock (datetime.utcnow) never goes backwards and may  *)
(* be read twice without having advanced.  uuid.uuid4() returns an id that *)
(* was never returned before.                                              *)
(***************************************************************************)
EXTENDS Integers, Sequences, FiniteSets, TLC

\* ------------------------------------------------------------------ bounds

\* Number of ids uuid4 can hand out in a run.
MaxChats == 2
\* Number of chats created in a run of two clients.
SharedChats == 1
\* Last reading of the clock, in ticks.
MaxClock == 2
\* Clock ticks per millisecond: timestamps are finer than message ids.
TicksPerMs == 2
\* Largest max_retries among the non-default policies tried.
SmallRetries == 3
\* Largest exponent to which the backoff factor is raised explicitly.
PowLimit == 8
\* Number of open connections a client may leave behind in a run.
MaxLeaked == 1
\* Number of client steps in a run that meet a failing store.
MaxFaultySteps == 1

\* ----------------------------------------------------- program constants

DefaultMaxRetries == 30
DefaultInitialDelay == 1
DefaultMaxDelay == 10

\* ------------------------------------------------------------ input sets

Clients == {"c1", "c2"}
ChatIds == 1..MaxChats
Roles == {"user"}
Contents == {"hello"}

EmptyMap == [k \in {} |-> "x"]
OneMap == [k \in {"lang"} |-> "en"]
\* The metadata argument: omitted (None), or a map.
NoMeta == [given |-> FALSE, map |-> EmptyMap]
MetaArgs == {NoMeta, [given |-> TRUE, map |-> EmptyMap], [given |-> TRUE, map |-> OneMap]}

\* --------------------------------------------------------------- numbers

\* Delays are exact dyadic rationals n/d in lowest terms (d a power of 2):
\* the floats the code computes from the policies below are exact.
Rat(n, d) == [n |-> n, d |-> d]
RatLE(a, b) == a.n * b.d <= b.n * a.d
RatMin(a, b) == IF RatLE(a, b) THEN a ELSE b
RatTimes15(a) == IF a.n % 2 = 0 THEN Rat(3 * (a.n \div 2), a.d) ELSE Rat(3 * a.n, 2 * a.d)

Policy(r, i, m) == [max_retries |-> r, initial_delay |-> i, max_delay |-> m]
DefaultPolicy == Policy(DefaultMaxRetries, Rat(DefaultInitialDelay, 1), Rat(DefaultMaxDelay, 1))
Policies ==
    {DefaultPolicy}
        \cup {Policy(r, Rat(1, 1), Rat(2, 1)) : r \in 0..SmallRetries}
        \cup {Policy(SmallRetries, Rat(3, 1), Rat(2, 1)), Policy(SmallRetries, Rat(1, 2), Rat(1, 1))}

\* ----------------------------------------------------------- conversions

\* metadata or {}
MetaOrEmpty(md) == IF md.given /\ md.map # EmptyMap THEN md.map ELSE EmptyMap

\* json.dumps of a map: the JSON object, as its set of key/value members.
JsonDumps(m) == {<<k, m[k]>> : k \in DOMAIN m}

\* The stored JSONB document decoded back into a map.
JsonLoads(b) == [k \in {p[1] : p \in b} |-> (CHOOSE p \in b : p[1] = k)[2]]

\* datetime.isoformat(): the millisecond part and the fraction below it.
IsoFormat(t) == <<t \div TicksPerMs, t % TicksPerMs>>

\* int(now.timestamp() * 1000)
MessageId(now) == now \div TicksPerMs

\* ------------------------------------------------------ store statements

\* Seeded fault: create_chat reading the clock once per column.
InsertChatTwoClocks(ch, id, now, md) ==
    [x \in DOMAIN ch \cup {id} |->
        IF x = id
        THEN [created_at |-> now, updated_at |-> now + 1, metadata |-> JsonDumps(MetaOrEmpty(md))]
        ELSE ch[x]]

\* INSERT INTO chats (id, created_at, updated_at, metadata)
InsertChat(ch, id, now, md) ==
    [x \in DOMAIN ch \cup {id} |->
        IF x = id
        THEN [created_at |-> now, updated_at |-> now, metadata |-> JsonDumps(MetaOrEmpty(md))]
        ELSE ch[x]]

\* Seeded fault: the UPDATE writing created_at.
UpdateChatWrongColumn(ch, id, now) ==
    [x \in DOMAIN ch |-> IF x = id THEN [ch[x] EXCEPT !.created_at = now] ELSE ch[x]]

\* UPDATE chats SET updated_at = now WHERE id = ...: no row, no change.
UpdateChat(ch, id, now) ==
    [x \in DOMAIN ch |-> IF x = id THEN [ch[x] EXCEPT !.updated_at = now] ELSE ch[x]]

\* The row add_message inserts.
MessageRow(id, role, content, now, md) ==
    [id |-> MessageId(now), chat_id |-> id, role |-> role, content |-> content,
     created_at |-> now, metadata |-> JsonDumps(MetaOrEmpty(md))]

\* Seeded fault: a messages table without the reference to chats.
InsertMessageNoForeignKey(ch, ms, row) ==
    IF \E m \in ms : m.chat_id = row.chat_id /\ m.id = row.id THEN "UniqueViolation"
    ELSE "none"

\* What the messages table answers to an INSERT: PRIMARY KEY (chat_id, id)
\* and chat_id REFERENCES chats(id).
InsertMessageError(ch, ms, row) ==
    IF \E m \in ms : m.chat_id = row.chat_id /\ m.id = row.id THEN "UniqueViolation"
    ELSE IF row.chat_id \notin DOMAIN ch THEN "ForeignKeyViolation"
    ELSE "none"

\* DELETE FROM chats WHERE id = ...: cursor.rowcount, the chats left, and
\* the messages left by ON DELETE CASCADE.
RowsDeleted(ch, id) == IF id \in DOMAIN ch THEN 1 ELSE 0
DeleteChatRow(ch, id) == [x \in DOMAIN ch \ {id} |-> ch[x]]
\* Seeded fault: a foreign key without ON DELETE CASCADE semantics.
CascadeNothing(ms, id) == ms
CascadeDelete(ms, id) == {m \in ms : m.chat_id # id}

\* Seeded fault: delete_chat answering true whatever the row count.
DeletedAlways(rows) == TRUE

\* delete_chat's answer from cursor.rowcount.
Deleted(rows) == rows > 0

\* get_chat's SELECT and conversion: the not-found sentinel, or the chat with
\* ISO timestamps and decoded metadata.
NotFound == [found |-> FALSE]
ChatToWire(ch, id) ==
    IF id \notin DOMAIN ch THEN NotFound
    ELSE [found |-> TRUE, id |-> id,
          created_at |-> IsoFormat(ch[id].created_at),
          updated_at |-> IsoFormat(ch[id].updated_at),
          metadata |-> JsonLoads(ch[id].metadata)]

\* get_messages' conversion of one row.
MessageToWire(m) ==
    [id |-> m.id, chat_id |-> m.chat_id, role |-> m.role, content |-> m.content,
     created_at |-> IsoFormat(m.created_at), metadata |-> JsonLoads(m.metadata)]

\* Seeded fault: the SELECT without its ORDER BY.
UnorderedRows(ms, id) ==
    LET S == {m \in ms : m.chat_id = id}
        n == Cardinality(S)
    IN {s \in [1..n -> S] : \A i, j \in 1..n : i # j => s[i] # s[j]}

\* SELECT ... WHERE chat_id = ... ORDER BY created_at ASC: every order of the
\* chat's rows that ORDER BY allows (rows of equal created_at in any order).
OrderedRows(ms, id) ==
    LET S == {m \in ms : m.chat_id = id}
        n == Cardinality(S)
    IN {s \in [1..n -> S] :
            /\ \A i, j \in 1..n : i # j => s[i] # s[j]
            /\ \A i, j \in 1..n : i < j => s[i].created_at <= s[j].created_at}

SelectMessages(ms, id) ==
    {[i \in DOMAIN s |-> MessageToWire(s[i])] : s \in OrderedRows(ms, id)}

\* uuid.uuid4(): an id never handed out before.
Uuid4(usedIds) == ChatIds \ usedIds

\* ------------------------------------------------ connection and bootstrap

\* The handle after a failed round trip: an open handle may have been broken.
FailConn(cn) == IF cn = "open" THEN {"open", "closed"} ELSE {cn}

\* One statement on handle cn: it succeeds only on an open handle, and may
\* always fail.
Statement(cn) ==
    (IF cn = "open" THEN {[ok |-> TRUE, conn |-> cn]} ELSE {})
        \cup {[ok |-> FALSE, conn |-> x] : x \in FailConn(cn)}

\* Outcomes of the connection code are records [conn, tables, err, failed]:
\* the handle and the bootstrap flag it leaves, the error it raises ("none"
\* when it returns) and whether any round trip in it failed.
Outcome(cn, tc, e, f) == [conn |-> cn, tables |-> tc, err |-> e, failed |-> f]

\* Seeded fault: init() without its _tables_created check, the flag
\* following the last bootstrap.
InitBodyAlways(cn, tc) ==
    {IF s.ok THEN Outcome(s.conn, TRUE, "none", FALSE)
             ELSE Outcome(s.conn, FALSE, "BootstrapError", TRUE)
        : s \in Statement(cn)}

\* The body of init() on a handle that is set: nothing once _tables_created,
\* else the CREATE ... IF NOT EXISTS statements, which set the flag only when
\* all have succeeded and re-raise the first failure.
InitBody(cn, tc) ==
    IF tc THEN {Outcome(cn, tc, "none", FALSE)}
    ELSE {IF s.ok THEN Outcome(s.conn, TRUE, "none", FALSE)
                  ELSE Outcome(s.conn, FALSE, "BootstrapError", TRUE)
            : s \in Statement(cn)}

\* Seeded fault: connect() letting the error of init() through.
ConnectReraisesInit(cn, tc) ==
    {Outcome(cn, tc, "ConnectError", TRUE)}
        \cup InitBody("open", tc)

\* connect(): psycopg.connect fails and the error is re-raised, or the new
\* handle replaces the old one and init() is attempted, its failure swallowed.
ConnectOutcomes(cn, tc) ==
    {Outcome(cn, tc, "ConnectError", TRUE)}
        \cup {Outcome(o.conn, o.tables, "none", o.failed) : o \in InitBody("open", tc)}

\* init(): connect() first when the handle is None, then the body.
InitOutcomes(cn, tc) ==
    IF cn = "none"
    THEN LET co == ConnectOutcomes(cn, tc)
         IN {o \in co : o.err # "none"}
                \cup UNION {{Outcome(i.conn, i.tables, i.err, i.failed \/ o.failed)
                                : i \in InitBody(o.conn, o.tables)}
                            : o \in {x \in co : x.err = "none"}}
    ELSE InitBody(cn, tc)

\* Seeded fault: store operations without their self.init().
PreambleSkipsInit(cn, tc) ==
    IF cn \in {"none", "closed"} THEN ConnectOutcomes(cn, tc)
    ELSE {Outcome(cn, tc, "none", FALSE)}

\* The head of every store operation: reconnect when the handle is absent or
\* closed, then init().  Errors of either propagate.
Preamble(cn, tc) ==
    LET co == IF cn \in {"none", "closed"} THEN ConnectOutcomes(cn, tc)
              ELSE {Outcome(cn, tc, "none", FALSE)}
    IN {o \in co : o.err # "none"}
            \cup UNION {{Outcome(i.conn, i.tables, i.err, i.failed \/ o.failed)
                            : i \in InitOutcomes(o.conn, o.tables)}
                        : o \in {x \in co : x.err = "none"}}

\* ---------------------------------------------------------------- await_up

\* Seeded fault: the cap applied before the multiplication.
NextDelayCapFirst(delay, maxDelay) == RatTimes15(RatMin(maxDelay, delay))

\* Seeded fault: a backoff that doubles.
NextDelayDoubling(delay, maxDelay) == RatMin(maxDelay, Rat(2 * delay.n, delay.d))

\* delay = min(max_delay, delay * 1.5)
NextDelay(delay, maxDelay) == RatMin(maxDelay, RatTimes15(delay))

\* What one failed probe leaves: the sleep is taken, then connect() is tried
\* when the handle is found closed, its error swallowed.
AfterFailedProbe(s) ==
    UNION {IF x = "closed"
           THEN {[conn |-> o.conn, tables |-> o.tables] : o \in ConnectOutcomes(x, s.tables)}
           ELSE {[conn |-> x, tables |-> s.tables]}
            : x \in FailConn(s.conn)}

\* Outcomes of await_up are records [conn, tables, ready, err, failed] with
\* the probes issued, whether the last one was answered, and the sleeps taken.
AwaitOutcome(s, rdy, e, f, n, a, sl) ==
    [conn |-> s.conn, tables |-> s.tables, ready |-> rdy, err |-> e, failed |-> f,
     probes |-> n, answered |-> a, sleeps |-> sl]

\* The retry loop from attempt number `attempt` on, S being the handle and
\* bootstrap flag the client may have by then, f whether a round trip has
\* failed so far: every way the loop can end.
RECURSIVE AwaitLoop(_, _, _, _, _, _)
AwaitLoop(S, attempt, delay, sleeps, pol, f) ==
    IF attempt > pol.max_retries
    THEN {AwaitOutcome(s, FALSE, "Unavailable", f, attempt - 1, FALSE, sleeps) : s \in S}
    ELSE {AwaitOutcome(s, TRUE, "none", f, attempt, TRUE, sleeps)
            : s \in {x \in S : x.conn = "open"}}
         \cup AwaitLoop(UNION {AfterFailedProbe(s) : s \in S}, attempt + 1,
                        NextDelay(delay, pol.max_delay), Append(sleeps, delay), pol, TRUE)

\* await_up below its readiness check (lines 122-154): connect() when the
\* handle is None, its error propagating, then the loop.
AwaitUpUncached(cn, tc, pol) ==
    LET co == IF cn = "none" THEN ConnectOutcomes(cn, tc)
              ELSE {Outcome(cn, tc, "none", FALSE)}
    IN {AwaitOutcome(o, FALSE, o.err, TRUE, 0, FALSE, << >>) : o \in {x \in co : x.err # "none"}}
       \cup UNION {AwaitLoop({[conn |-> o.conn, tables |-> o.tables]}, 1,
                             pol.initial_delay, << >>, pol, o.failed)
                   : o \in {x \in co : x.err = "none"}}

\* Seeded fault: await_up without its readiness check.
AwaitUpAlwaysProbes(cn, rdy, tc, pol) == AwaitUpUncached(cn, tc, pol)

\* await_up(max_retries, initial_delay, max_delay) on a client with handle
\* cn, readiness flag rdy and bootstrap flag tc.
AwaitUpOutcomes(cn, rdy, tc, pol) ==
    IF rdy
    THEN {AwaitOutcome([conn |-> cn, tables |-> tc], TRUE, "none", FALSE, 0, FALSE, << >>)}
    ELSE AwaitUpUncached(cn, tc, pol)

\* self.await_up() as get_messages and delete_chat call it: the default
\* policy, and only what it leaves in the client.
AwaitUpDefault(cn, rdy, tc) ==
    {[conn |-> o.conn, tables |-> o.tables, ready |-> o.ready, err |-> o.err, failed |-> o.failed]
        : o \in AwaitUpOutcomes(cn, rdy, tc, DefaultPolicy)}

\* AwaitUpDefault tabulated over the client states, so that it is computed
\* once.
AwaitUpDefaultTable ==
    [cn \in {"none", "open", "closed"}, rdy \in BOOLEAN, tc \in BOOLEAN |-> AwaitUpDefault(cn, rdy, tc)]

\* The head of get_messages and delete_chat: the preamble, then await_up().
PreambleAwait(cn, rdy, tc) ==
    LET pre == Preamble(cn, tc)
    IN {[conn |-> o.conn, tables |-> o.tables, ready |-> rdy, err |-> o.err, failed |-> o.failed]
            : o \in {x \in pre : x.err # "none"}}
       \cup UNION {{[a EXCEPT !.failed = a.failed \/ o.failed] : a \in AwaitUpDefaultTable[o.conn, rdy, o.tables]}
                    : o \in {x \in pre : x.err = "none"}}

\* Seeded fault: get_chat re-raising an error of its SELECT.
GetChatReraises(cn, tc, ch, id) ==
    LET pre == Preamble(cn, tc)
    IN {[conn |-> o.conn, tables |-> o.tables, err |-> o.err, failed |-> o.failed, chat |-> NotFound]
            : o \in {x \in pre : x.err # "none"}}
       \cup UNION {{[conn |-> s.conn, tables |-> o.tables,
                     err |-> IF s.ok THEN "none" ELSE "StoreError",
                     failed |-> o.failed \/ ~s.ok,
                     chat |-> IF s.ok THEN ChatToWire(ch, id) ELSE NotFound]
                        : s \in Statement(o.conn)}
                    : o \in {x \in pre : x.err = "none"}}

\* get_chat(chat_id) on a client with handle cn and bootstrap flag tc: the
\* preamble's errors propagate; an error of the SELECT is logged and the
\* not-found sentinel returned.
GetChatOutcomes(cn, tc, ch, id) ==
    LET pre == Preamble(cn, tc)
    IN {[conn |-> o.conn, tables |-> o.tables, err |-> o.err, failed |-> o.failed, chat |-> NotFound]
            : o \in {x \in pre : x.err # "none"}}
       \cup UNION {{[conn |-> s.conn, tables |-> o.tables, err |-> "none",
                     failed |-> o.failed \/ ~s.ok,
                     chat |-> IF s.ok THEN ChatToWire(ch, id) ELSE NotFound]
                        : s \in Statement(o.conn)}
                    : o \in {x \in pre : x.err = "none"}}

\* ------------------------------------------------------------------ state

VARIABLES
    clock,          \* the wall clock, in ticks
    chats,          \* table chats: id -> [created_at, updated_at, metadata]
    messages,       \* table messages: a set of rows
    used,           \* the ids uuid4 has handed out
    faulty,         \* the number of client steps that met a failing store
    conn,           \* per client: self.conn, "none" | "open" | "closed"
    ready,          \* per client: self._is_query_service_ready
    tables_created, \* per client: self._tables_created
    pc,             \* per client: "idle", inside a call, or "done"
    call,           \* per client: the running call's arguments and locals
    res,            \* per client: what the finished call returned or raised
    answers,        \* history, per chat id: how many delete_chat calls that
                    \* found the chat and ran their DELETE answered true (t)
                    \* and false (f)
    leaked          \* history, per client: connections it opened, never
                    \* closed and no longer holds in self.conn

vars == <<clock, chats, messages, used, faulty, conn, ready, tables_created, pc, call, res, answers, leaked>>
dbVars == <<chats, messages, used>>
clientVars == <<conn, ready, tables_created>>

NoCall == [op |-> "none"]
NoRes == [op |-> "none"]

\* After __init__ (lines 27-29) on every client, against an empty store.
Init ==
    /\ clock = 0
    /\ chats = [x \in {} |-> 0]
    /\ messages = {}
    /\ used = {}
    /\ faulty = 0
    /\ conn = [c \in Clients |-> "none"]
    /\ ready = [c \in Clients |-> FALSE]
    /\ tables_created = [c \in Clients |-> FALSE]
    /\ pc = [c \in Clients |-> "idle"]
    /\ call = [c \in Clients |-> NoCall]
    /\ res = [c \in Clients |-> NoRes]
    /\ answers = [id \in ChatIds |-> [t |-> 0, f |-> 0]]
    /\ leaked = [c \in Clients |-> 0]

\* The store fails in this step if f, which it does in at most
\* MaxFaultySteps steps of a run.
Fault(f) ==
    /\ f => faulty < MaxFaultySteps
    /\ faulty' = IF f THEN faulty + 1 ELSE faulty

\* What a call leaves in the client object.
SetClient(c, cn, tc, rdy) ==
    /\ conn' = [conn EXCEPT ![c] = cn]
    /\ tables_created' = [tables_created EXCEPT ![c] = tc]
    /\ ready' = [ready EXCEPT ![c] = rdy]

\* The call returns or raises.
Finish(c, cl, r) ==
    /\ pc' = [pc EXCEPT ![c] = "done"]
    /\ call' = [call EXCEPT ![c] = cl]
    /\ res' = [res EXCEPT ![c] = r]

\* The call goes on to its next statement.
Goto(c, label, cl) ==
    /\ pc' = [pc EXCEPT ![c] = label]
    /\ call' = [call EXCEPT ![c] = cl]
    /\ UNCHANGED res

Raise(op, e) == [op |-> op, err |-> e]
Return(op, v) == [op |-> op, err |-> "none", val |-> v]

\* A finished call's result is taken by its caller before anything else
\* happens: taking it changes nothing that another step reads, so every run
\* has the same store and client states as one that takes results at once.
NoResultPending == \A d \in Clients : pc[d] # "done"

\* Client c is at `label` and may take its step.
At(c, label) == pc[c] = label /\ NoResultPending

\* The clock advances.
Tick ==
    /\ NoResultPending
    /\ clock < MaxClock
    /\ clock' = clock + 1
    /\ UNCHANGED <<dbVars, faulty, clientVars, pc, call, res, answers, leaked>>

\* The caller takes the result; the client is free for the next call.
Idle(c) ==
    /\ pc[c] = "done"
    /\ pc' = [pc EXCEPT ![c] = "idle"]
    /\ call' = [call EXCEPT ![c] = NoCall]
    /\ res' = [res EXCEPT ![c] = NoRes]
    /\ UNCHANGED <<clock, dbVars, faulty, clientVars, answers, leaked>>

\* ------------------------------------------------------------- operations

\* Seeded fault: add_message without its check of the lookup.
AddMessageNeverRejects(chat) == FALSE

\* add_message, line 223: `if not chat`, the lookup's answer being the
\* sentinel.
AddMessageRejects(chat) == ~chat.found

\* delete_chat, line 380: `if not chat`.
DeleteChatSkips(chat) == ~chat.found

\* connect(), lines 34-41: self.conn = psycopg.connect(...) replaces the
\* handle without closing it, so a handle that was open stays open with
\* nothing referring to it.  (The callers inside the class call connect()
\* only on an absent or closed handle.)
Abandoned(cn, o) == IF o.err = "none" /\ cn = "open" THEN 1 ELSE 0

\* The connections client c has opened and not closed.
Live(c) == (IF conn[c] = "open" THEN 1 ELSE 0) + leaked[c]

\* connect(), called by the application at startup and by __enter__.
Connect(c) ==
    /\ At(c, "idle")
    /\ \E o \in ConnectOutcomes(conn[c], tables_created[c]) :
        /\ Fault(o.failed)
        /\ SetClient(c, o.conn, o.tables, ready[c])
        /\ leaked[c] + Abandoned(conn[c], o) <= MaxLeaked
        /\ leaked' = [leaked EXCEPT ![c] = @ + Abandoned(conn[c], o)]
        /\ Finish(c, [op |-> "connect"],
                  IF o.err = "none" THEN Return("connect", "None") ELSE Raise("connect", o.err))
    /\ UNCHANGED <<clock, dbVars, answers>>

\* close(): closes an open handle, else does nothing.
Close(c) ==
    /\ At(c, "idle")
    /\ conn' = [conn EXCEPT ![c] = IF conn[c] = "open" THEN "closed" ELSE conn[c]]
    /\ UNCHANGED <<clock, dbVars, faulty, ready, tables_created, pc, call, res, answers, leaked>>

\* await_up(max_retries, initial_delay, max_delay)
AwaitUp(c, pol) ==
    /\ At(c, "idle")
    /\ \E o \in AwaitUpOutcomes(conn[c], ready[c], tables_created[c], pol) :
        /\ Fault(o.failed)
        /\ SetClient(c, o.conn, o.tables, o.ready)
        /\ Finish(c, [op |-> "await_up", policy |-> pol],
                  [op |-> "await_up", err |-> o.err, probes |-> o.probes,
                   answered |-> o.answered, sleeps |-> o.sleeps])
    /\ UNCHANGED <<clock, dbVars, answers, leaked>>

\* Seeded fault: a retry loop that runs once more than max_retries.
LoopExhaustedLate(attempt, maxRetries) == attempt > maxRetries + 1

\* await_up, line 126: `for attempt in range(1, max_retries + 1)` is over.
LoopExhausted(attempt, maxRetries) == attempt > maxRetries

\* What await_up reports: the error, the probes issued, whether the last one
\* was answered, the sleeps taken.
AwaitResult(e, n, a, sl) ==
    [op |-> "await_up", err |-> e, probes |-> n, answered |-> a, sleeps |-> sl]

\* await_up step by step, lines 118-125: the readiness check, connect() when
\* the handle is None (its error propagates), delay = initial_delay.
AwaitUpEnter(c, pol) ==
    /\ At(c, "idle")
    /\ LET cl == [op |-> "await_up", policy |-> pol, attempt |-> 1,
                  delay |-> pol.initial_delay, sleeps |-> << >>]
       IN IF ready[c]
          THEN /\ Finish(c, cl, AwaitResult("none", 0, FALSE, << >>))
               /\ UNCHANGED clientVars
          ELSE \E o \in (IF conn[c] = "none" THEN ConnectOutcomes(conn[c], tables_created[c])
                         ELSE {Outcome(conn[c], tables_created[c], "none", FALSE)}) :
                /\ SetClient(c, o.conn, o.tables, ready[c])
                /\ IF o.err # "none" THEN Finish(c, cl, AwaitResult(o.err, 0, FALSE, << >>))
                   ELSE Goto(c, "aw_loop", cl)
    /\ UNCHANGED <<clock, dbVars, faulty, answers, leaked>>

\* await_up step by step, lines 126-154: one turn of the loop, or the raise
\* after it.  The probe is answered only on an open handle and may always
\* fail; a failed probe is followed by the sleep, the new delay and the
\* reconnection attempt.
AwaitUpAttempt(c) ==
    /\ At(c, "aw_loop")
    /\ LET cl == call[c]
       IN IF LoopExhausted(cl.attempt, cl.policy.max_retries)
          THEN /\ Finish(c, cl, AwaitResult("Unavailable", cl.attempt - 1, FALSE, cl.sleeps))
               /\ UNCHANGED clientVars
          ELSE \/ /\ conn[c] = "open"
                  /\ SetClient(c, conn[c], tables_created[c], TRUE)
                  /\ Finish(c, cl, AwaitResult("none", cl.attempt, TRUE, cl.sleeps))
               \/ \E a \in AfterFailedProbe([conn |-> conn[c], tables |-> tables_created[c]]) :
                  /\ SetClient(c, a.conn, a.tables, ready[c])
                  /\ Goto(c, "aw_loop",
                          [cl EXCEPT !.attempt = @ + 1,
                                     !.delay = NextDelay(@, cl.policy.max_delay),
                                     !.sleeps = Append(@, cl.delay)])
    /\ UNCHANGED <<clock, dbVars, faulty, answers, leaked>>

\* create_chat(metadata)
CreateChat(c, md) ==
    /\ At(c, "idle")
    /\ \E pre \in Preamble(conn[c], tables_created[c]) :
        LET cl == [op |-> "create_chat", metadata |-> md]
        IN IF pre.err # "none"
           THEN /\ Fault(pre.failed)
                /\ SetClient(c, pre.conn, pre.tables, ready[c])
                /\ Finish(c, cl, Raise("create_chat", pre.err))
                /\ UNCHANGED dbVars
           ELSE \E id \in Uuid4(used), s \in Statement(pre.conn) :
                /\ Fault(pre.failed \/ ~s.ok)
                /\ used' = used \cup {id}
                /\ SetClient(c, s.conn, pre.tables, ready[c])
                /\ IF s.ok
                   THEN /\ chats' = InsertChat(chats, id, clock, md)
                        /\ Finish(c, cl, Return("create_chat", id))
                   ELSE /\ UNCHANGED chats
                        /\ Finish(c, cl, Raise("create_chat", "StoreError"))
                /\ UNCHANGED messages
    /\ UNCHANGED <<clock, answers, leaked>>

\* get_chat(chat_id)
GetChat(c, id) ==
    /\ At(c, "idle")
    /\ \E g \in GetChatOutcomes(conn[c], tables_created[c], chats, id) :
        /\ Fault(g.failed)
        /\ SetClient(c, g.conn, g.tables, ready[c])
        /\ Finish(c, [op |-> "get_chat", chat_id |-> id],
                  IF g.err = "none" THEN Return("get_chat", g.chat) ELSE Raise("get_chat", g.err))
    /\ UNCHANGED <<clock, dbVars, answers, leaked>>

\* get_messages(chat_id)
GetMessages(c, id) ==
    /\ At(c, "idle")
    /\ \E pa \in PreambleAwait(conn[c], ready[c], tables_created[c]) :
        LET cl == [op |-> "get_messages", chat_id |-> id]
        IN IF pa.err # "none"
           THEN /\ Fault(pa.failed)
                /\ SetClient(c, pa.conn, pa.tables, pa.ready)
                /\ Finish(c, cl, Raise("get_messages", pa.err))
           ELSE \E s \in Statement(pa.conn) :
                /\ Fault(pa.failed \/ ~s.ok)
                /\ SetClient(c, s.conn, pa.tables, pa.ready)
                /\ IF s.ok
                   THEN \E rows \in SelectMessages(messages, id) :
                            Finish(c, cl, Return("get_messages", rows))
                   ELSE Finish(c, cl, Raise("get_messages", "StoreError"))
    /\ UNCHANGED <<clock, dbVars, answers, leaked>>

\* add_message, lines 215-224: the preamble, the lookup of the chat, the
\* clock reading, and the "not found" error.
AddMessageBegin(c, id, role, content, md) ==
    /\ At(c, "idle")
    /\ \E pre \in Preamble(conn[c], tables_created[c]) :
        LET cl == [op |-> "add_message", chat_id |-> id, role |-> role, content |-> content,
                   metadata |-> md, now |-> clock, rows_updated |-> 0, overlapped |-> FALSE]
        IN IF pre.err # "none"
           THEN /\ Fault(pre.failed)
                /\ SetClient(c, pre.conn, pre.tables, ready[c])
                /\ Finish(c, cl, Raise("add_message", pre.err))
           ELSE \E g \in GetChatOutcomes(pre.conn, pre.tables, chats, id) :
                /\ Fault(pre.failed \/ g.failed)
                /\ SetClient(c, g.conn, g.tables, ready[c])
                /\ IF g.err # "none" THEN Finish(c, cl, Raise("add_message", g.err))
                   ELSE IF AddMessageRejects(g.chat) THEN Finish(c, cl, Raise("add_message", "ChatNotFound"))
                   ELSE Goto(c, "am_update", cl)
    /\ UNCHANGED <<clock, dbVars, answers, leaked>>

\* add_message, lines 226-235: UPDATE chats SET updated_at = now.
AddMessageUpdate(c) ==
    /\ At(c, "am_update")
    /\ \E s \in Statement(conn[c]) :
        /\ Fault(~s.ok)
        /\ conn' = [conn EXCEPT ![c] = s.conn]
        /\ IF s.ok
           THEN /\ chats' = UpdateChat(chats, call[c].chat_id, call[c].now)
                /\ Goto(c, "am_insert",
                        [call[c] EXCEPT !.rows_updated = RowsDeleted(chats, call[c].chat_id)])
           ELSE /\ UNCHANGED chats
                /\ Finish(c, call[c], Raise("add_message", "StoreError"))
    /\ UNCHANGED <<clock, messages, used, ready, tables_created, answers, leaked>>

\* History: add_message call d on the same chat is between its lookup and
\* its INSERT while call c inserts.
Overlaps(d, c) ==
    /\ d # c
    /\ pc[d] \in {"am_update", "am_insert"}
    /\ call[d].chat_id = call[c].chat_id

\* add_message, lines 237-258: the message id, the INSERT, the return value.
\* (call[d].overlapped is history: it records the overlap for the calls d.)
AddMessageInsert(c) ==
    /\ At(c, "am_insert")
    /\ \E s \in Statement(conn[c]) :
        LET cl == call[c]
            row == MessageRow(cl.chat_id, cl.role, cl.content, cl.now, cl.metadata)
            e == InsertMessageError(chats, messages, row)
        IN /\ Fault(~s.ok)
           /\ conn' = [conn EXCEPT ![c] = s.conn]
           /\ IF s.ok /\ e = "none"
              THEN /\ messages' = messages \cup {row}
                   /\ pc' = [pc EXCEPT ![c] = "done"]
                   /\ res' = [res EXCEPT ![c] = Return("add_message", <<row.id, IsoFormat(cl.now)>>)]
                   /\ call' = [d \in Clients |-> IF Overlaps(d, c) THEN [call[d] EXCEPT !.overlapped = TRUE]
                                                 ELSE call[d]]
              ELSE /\ UNCHANGED messages
                   /\ Finish(c, cl, Raise("add_message", IF s.ok THEN e ELSE "StoreError"))
    /\ UNCHANGED <<clock, chats, used, ready, tables_created, answers, leaked>>

\* delete_chat, lines 370-381: the preamble, await_up(), the lookup.
DeleteChatBegin(c, id) ==
    /\ At(c, "idle")
    /\ \E pa \in PreambleAwait(conn[c], ready[c], tables_created[c]) :
        LET cl == [op |-> "delete_chat", chat_id |-> id, cascaded |-> 0]
        IN IF pa.err # "none"
           THEN /\ Fault(pa.failed)
                /\ SetClient(c, pa.conn, pa.tables, pa.ready)
                /\ Finish(c, cl, Raise("delete_chat", pa.err))
           ELSE \E g \in GetChatOutcomes(pa.conn, pa.tables, chats, id) :
                /\ Fault(pa.failed \/ g.failed)
                /\ SetClient(c, g.conn, g.tables, pa.ready)
                /\ IF g.err # "none" THEN Finish(c, cl, Raise("delete_chat", g.err))
                   ELSE IF DeleteChatSkips(g.chat) THEN Finish(c, cl, Return("delete_chat", FALSE))
                   ELSE Goto(c, "dc_delete", cl)
    /\ UNCHANGED <<clock, dbVars, answers, leaked>>

\* delete_chat, lines 383-398: the DELETE and the answer from its row count.
\* (call[c].cascaded is history: the message rows the cascade removed.)
DeleteChatExec(c) ==
    /\ At(c, "dc_delete")
    /\ \E s \in Statement(conn[c]) :
        LET id == call[c].chat_id
            answer == Deleted(RowsDeleted(chats, id))
        IN /\ Fault(~s.ok)
           /\ conn' = [conn EXCEPT ![c] = s.conn]
           /\ IF s.ok
              THEN /\ chats' = DeleteChatRow(chats, id)
                   /\ messages' = CascadeDelete(messages, id)
                   /\ Finish(c, [call[c] EXCEPT !.cascaded = Cardinality({m \in messages : m.chat_id = id})],
                             Return("delete_chat", answer))
                   /\ answers' = [answers EXCEPT ![id] =
                                    IF answer THEN [@ EXCEPT !.t = @ + 1] ELSE [@ EXCEPT !.f = @ + 1]]
              ELSE /\ UNCHANGED <<chats, messages, answers>>
                   /\ Finish(c, call[c], Raise("delete_chat", "StoreError"))
    /\ UNCHANGED <<clock, used, ready, tables_created, leaked>>

\* ---------------------------------------------------------- specifications

\* Two clients on one store, their statements interleaved; SharedChats
\* chats are created and messages carry no metadata.
Next ==
    \/ Tick
    \/ \E c \in Clients : Idle(c)
    \/ \E c \in Clients, md \in MetaArgs : Cardinality(used) < SharedChats /\ CreateChat(c, md)
    \/ \E c \in Clients, id \in ChatIds : GetChat(c, id)
    \/ \E c \in Clients, id \in ChatIds : GetMessages(c, id)
    \/ \E c \in Clients, id \in ChatIds, role \in Roles, content \in Contents :
            AddMessageBegin(c, id, role, content, NoMeta)
    \/ \E c \in Clients : AddMessageUpdate(c)
    \/ \E c \in Clients : AddMessageInsert(c)
    \/ \E c \in Clients, id \in ChatIds : DeleteChatBegin(c, id)
    \/ \E c \in Clients : DeleteChatExec(c)

Spec == Init /\ [][Next]_vars

\* One client alone on the store: every operation but await_up, every
\* metadata argument, MaxChats chats.
NextSolo ==
    \/ Tick
    \/ \E c \in {"c1"} :
        \/ Idle(c)
        \/ Connect(c)
        \/ Close(c)
        \/ \E md \in MetaArgs : CreateChat(c, md)
        \/ \E id \in ChatIds : GetChat(c, id)
        \/ \E id \in ChatIds : GetMessages(c, id)
        \/ \E id \in ChatIds, role \in Roles, content \in Contents, md \in MetaArgs :
                AddMessageBegin(c, id, role, content, md)
        \/ AddMessageUpdate(c)
        \/ AddMessageInsert(c)
        \/ \E id \in ChatIds : DeleteChatBegin(c, id)
        \/ DeleteChatExec(c)

SpecSolo == Init /\ [][NextSolo]_vars

\* One client's connection handling: connect, close and await_up under every
\* policy, no data statement.
NextAwait ==
    \E c \in {"c1"} :
        \/ Idle(c)
        \/ Connect(c)
        \/ Close(c)
        \/ \E pol \in Policies : AwaitUp(c, pol)

SpecAwait == Init /\ [][NextAwait]_vars

\* One client's await_up taken one loop turn at a time, the store free to
\* fail at every probe.  The thread that runs await_up keeps running: its
\* sleeps end and its round trips are answered or fail.
NextAwaitSteps ==
    \E c \in {"c1"} :
        \/ Idle(c)
        \/ Close(c)
        \/ \E pol \in Policies : AwaitUpEnter(c, pol)
        \/ AwaitUpAttempt(c)

SpecAwaitSteps == Init /\ [][NextAwaitSteps]_vars /\ WF_vars(AwaitUpAttempt("c1"))

\* ------------------------------------------------------------------ claims

\* Client c starts a call of `op` in this step.
Starts(c, op) == pc[c] = "idle" /\ pc'[c] # "idle" /\ call'[c].op = op

\* Client c's call of `op` returns or raises in this step.
Ends(c, op) == pc[c] # "done" /\ pc'[c] = "done" /\ res'[c].op = op

\* No round trip to the store failed in this step.
StoreAnswers == faulty' = faulty

\* C1: add_message on a chat id that has no chat row fails and writes
\* nothing: the call ends in its first step with an error, which is "chat
\* not found" whenever the store answered, and the chats and messages tables
\* are the same after it as before.
C1_AddMessageOnAbsentChat ==
    [][\A c \in Clients :
        (Starts(c, "add_message") /\ call'[c].chat_id \notin DOMAIN chats)
            => /\ pc'[c] = "done"
               /\ res'[c].err # "none"
               /\ StoreAnswers => res'[c].err = "ChatNotFound"
               /\ UNCHANGED <<chats, messages>>]_vars

\* C1's case: "chat not found" was raised for an absent id while another
\* chat and a message are stored.
C1_Witness ==
    \E c \in Clients :
        /\ pc[c] = "done"
        /\ res[c].op = "add_message"
        /\ res[c].err = "ChatNotFound"
        /\ call[c].chat_id \notin DOMAIN chats
        /\ chats # << >>
        /\ messages # {}

\* C2: the updated_at bump and the message row of one add_message call are
\* both there or both missing once the call has returned or raised: the
\* UPDATE changed a row exactly if the INSERT succeeded.
C2_BumpAndInsertTogether ==
    \A c \in Clients :
        (pc[c] = "done" /\ res[c].op = "add_message")
            => (call[c].rows_updated = 1 <=> res[c].err = "none")

\* C3: no add_message call on an existing chat fails on the (chat_id, id)
\* key, whatever the clock readings of the calls before it.
C3_NoKeyCollision ==
    \A c \in Clients :
        (pc[c] = "done" /\ res[c].op = "add_message") => res[c].err # "UniqueViolation"

\* C4: delete_chat on an existing chat answers true and leaves neither the
\* chat nor any of its messages: a call that finds the chat goes on to its
\* DELETE, and a DELETE that runs while the chat row exists answers true,
\* after which get_chat gives the sentinel and get_messages the empty
\* sequence.
C4_DeleteExistingChat ==
    [][\A c \in Clients :
        /\ (Starts(c, "delete_chat") /\ call'[c].chat_id \in DOMAIN chats /\ StoreAnswers)
                => pc'[c] = "dc_delete"
        /\ (Ends(c, "delete_chat") /\ pc[c] = "dc_delete" /\ res'[c].err = "none"
                /\ call[c].chat_id \in DOMAIN chats)
                => /\ res'[c].val = TRUE
                   /\ ~ChatToWire(chats', call[c].chat_id).found
                   /\ \A rows \in SelectMessages(messages', call[c].chat_id) : DOMAIN rows = {}
                   /\ \A m \in messages' : m.chat_id # call[c].chat_id]_vars

\* C4's case: a delete_chat answered true and its cascade removed messages.
C4_Witness ==
    \E c \in Clients :
        /\ pc[c] = "done"
        /\ res[c].op = "delete_chat"
        /\ res[c].err = "none"
        /\ res[c].val = TRUE
        /\ call[c].cascaded > 0

\* C5: delete_chat answers true exactly if the call removed a chat row; on
\* an id without a chat row it answers false and changes no row; and of the
\* calls that found the same chat and ran their DELETE, exactly one answers
\* true.
C5_TrueIffRowDeleted ==
    /\ [][\A c \in Clients :
            /\ (Ends(c, "delete_chat") /\ res'[c].err = "none")
                    => (res'[c].val = TRUE <=> DOMAIN chats' # DOMAIN chats)
            /\ (Ends(c, "delete_chat") /\ res'[c].err # "none")
                    => UNCHANGED <<chats, messages>>
            /\ (Starts(c, "delete_chat") /\ call'[c].chat_id \notin DOMAIN chats)
                    => /\ pc'[c] = "done"
                       /\ UNCHANGED <<chats, messages>>
                       /\ StoreAnswers => (res'[c].err = "none" /\ res'[c].val = FALSE)]_vars
    /\ [](\A id \in ChatIds :
            /\ answers[id].t <= 1
            /\ (answers[id].t + answers[id].f > 0) => answers[id].t = 1)

\* C5's case: two delete_chat calls found the same chat, both ran their
\* DELETE, and the second has just answered.
C5_Witness ==
    \E c \in Clients :
        /\ pc[c] = "done"
        /\ res[c].op = "delete_chat"
        /\ res[c].err = "none"
        /\ answers[call[c].chat_id] = [t |-> 1, f |-> 1]

\* C6: create_chat(metadata) followed at once by get_chat of the returned
\* id: the id is that of no chat stored before, and the chat get_chat gives
\* for it has created_at equal to updated_at and as metadata the map
\* supplied, the empty map when none was; get_chat, when the store answers,
\* returns the conversion of the stored row.
C6_CreateThenGet ==
    [][\A c \in Clients :
        /\ (Ends(c, "create_chat") /\ res'[c].err = "none")
                => LET id == res'[c].val
                       md == call'[c].metadata
                       w == ChatToWire(chats', id)
                   IN /\ id \notin DOMAIN chats
                      /\ w.found
                      /\ w.id = id
                      /\ w.created_at = w.updated_at
                      /\ w.metadata = (IF md.given THEN md.map ELSE EmptyMap)
        /\ (Ends(c, "get_chat") /\ StoreAnswers)
                => /\ res'[c].err = "none"
                   /\ res'[c].val = ChatToWire(chats, call'[c].chat_id)]_vars

\* C6's case: a chat was created with a non-empty map while another chat is
\* stored.
C6_Witness ==
    \E c \in Clients :
        /\ pc[c] = "done"
        /\ res[c].op = "create_chat"
        /\ res[c].err = "none"
        /\ call[c].metadata.map = OneMap
        /\ Cardinality(DOMAIN chats) = 2
        /\ ChatToWire(chats, res[c].val).metadata = OneMap

\* C7: every stored chat has updated_at >= created_at.
C7_UpdatedNotBeforeCreated ==
    \A id \in DOMAIN chats : chats[id].updated_at >= chats[id].created_at

\* C7's case: a chat whose updated_at a later add_message has moved.
C7_Witness ==
    \E id \in DOMAIN chats : chats[id].updated_at > chats[id].created_at

\* The order of isoformat() values.
IsoLE(a, b) == a[1] < b[1] \/ (a[1] = b[1] /\ a[2] <= b[2])

\* rows is the stored messages of chat id, each once, in non-decreasing
\* created_at order.
ExactlyInOrder(rows, id) ==
    LET S == {m \in messages : m.chat_id = id}
    IN /\ DOMAIN rows = 1..Cardinality(S)
       /\ {rows[i] : i \in DOMAIN rows} = {MessageToWire(m) : m \in S}
       /\ \A i, j \in DOMAIN rows : i < j => IsoLE(rows[i].created_at, rows[j].created_at)

\* What get_messages gives: an error only when the store failed, else the
\* chat's messages in order, which is the empty sequence for a chat without
\* messages and for an id without chat.
GetMessagesAnswer(c) ==
    Ends(c, "get_messages")
        => /\ StoreAnswers => res'[c].err = "none"
           /\ res'[c].err = "none"
                => /\ ExactlyInOrder(res'[c].val, call'[c].chat_id)
                   /\ (\A m \in messages : m.chat_id # call'[c].chat_id) => res'[c].val = << >>

\* The message add_message has just stored is the last one of every sequence
\* get_messages can give for the chat.
NewMessageLast(c) ==
    \A rows \in SelectMessages(messages', call'[c].chat_id) :
        /\ rows # << >>
        /\ rows[Len(rows)].id = res'[c].val[1]
        /\ rows[Len(rows)].created_at = res'[c].val[2]

\* C8 as stated: get_messages gives exactly the chat's messages in
\* created_at order, the empty sequence without error when there are none,
\* and after every successful add_message the new message is last.
C8_AsStated ==
    [][\A c \in Clients :
        /\ GetMessagesAnswer(c)
        /\ (Ends(c, "add_message") /\ res'[c].err = "none") => NewMessageLast(c)]_vars

\* C8: get_messages gives exactly the chat's messages in created_at order,
\* the empty sequence without error when there are none, and after a
\* successful add_message the new message is last provided no other
\* add_message call stored a message of that chat between this call's lookup
\* and its INSERT.
C8_GetMessages ==
    [][\A c \in Clients :
        /\ GetMessagesAnswer(c)
        /\ (Ends(c, "add_message") /\ res'[c].err = "none" /\ ~call[c].overlapped)
                => NewMessageLast(c)]_vars

\* C8's case: get_messages returned two messages of one chat.
C8_Witness ==
    \E c \in Clients :
        /\ pc[c] = "done"
        /\ res[c].op = "get_messages"
        /\ res[c].err = "none"
        /\ Len(res[c].val) = 2

\* C9: readiness is cached: the flag never falls; an await_up call on a ready
\* client returns at once, with no probe, no sleep, no reconnection and no
\* round trip, whatever the handle; a successful await_up leaves the flag
\* set; and the flag rises only in an await_up call whose last probe was
\* answered.
C9_ReadinessCached ==
    [][\A c \in Clients :
        /\ ready[c] => ready'[c]
        /\ (Starts(c, "await_up") /\ ready[c])
                => /\ pc'[c] = "done"
                   /\ res'[c].err = "none"
                   /\ res'[c].probes = 0
                   /\ res'[c].sleeps = << >>
                   /\ conn'[c] = conn[c]
                   /\ StoreAnswers
        /\ (Ends(c, "await_up") /\ res'[c].err = "none") => ready'[c]
        /\ (~ready[c] /\ ready'[c])
                => /\ Ends(c, "await_up")
                   /\ res'[c].err = "none"
                   /\ res'[c].answered
                   /\ res'[c].probes >= 1
                   /\ conn'[c] = "open"]_vars

\* C9's case: await_up returned without a probe on a ready client whose
\* handle is closed.
C9_Witness ==
    \E c \in Clients :
        /\ pc[c] = "done"
        /\ res[c].op = "await_up"
        /\ res[c].err = "none"
        /\ res[c].probes = 0
        /\ ready[c]
        /\ conn[c] = "closed"

RECURSIVE Pow(_, _)
Pow(b, e) == IF e = 0 THEN 1 ELSE b * Pow(b, e - 1)

RatEq(a, b) == a.n * b.d = b.n * a.d

\* min(maxDelay, initialDelay * 1.5^(k-1)), the power taken up to exponent
\* PowLimit, beyond which the product is past maxDelay for the policies
\* under check (and the value 0 is given otherwise, which no sleep equals).
ScheduledDelay(pol, k) ==
    LET i == pol.initial_delay
        e == IF k - 1 <= PowLimit THEN k - 1 ELSE PowLimit
        p == Rat(i.n * Pow(3, e), i.d * Pow(2, e))
    IN IF k - 1 <= PowLimit \/ RatLE(pol.max_delay, p) THEN RatMin(pol.max_delay, p)
       ELSE Rat(0, 1)

\* C10: for initialDelay <= maxDelay the sleep after the k-th failed probe
\* of await_up lasts min(maxDelay, initialDelay * 1.5^(k-1)), the sleeps
\* never decrease and never exceed maxDelay, one sleep follows each failed
\* probe; with the default policy a store that first answers the 3rd probe
\* makes await_up return after exactly the sleeps 1.0 and 1.5.
C10_BackoffSchedule ==
    \A c \in Clients :
        (pc[c] = "done" /\ res[c].op = "await_up")
            => LET pol == call[c].policy
                   sl == res[c].sleeps
               IN /\ Len(sl) = res[c].probes - (IF res[c].answered THEN 1 ELSE 0)
                  /\ RatLE(pol.initial_delay, pol.max_delay)
                        => /\ \A k \in DOMAIN sl : RatEq(sl[k], ScheduledDelay(pol, k))
                           /\ \A k \in DOMAIN sl : RatLE(sl[k], pol.max_delay)
                           /\ \A k \in DOMAIN sl : k > 1 => RatLE(sl[k - 1], sl[k])
                  /\ (pol = DefaultPolicy /\ res[c].answered /\ res[c].probes = 3)
                        => /\ res[c].err = "none"
                           /\ sl = <<Rat(1, 1), Rat(3, 2)>>

\* C10's case: under the default policy the 3rd probe was the first answered.
C10_Witness ==
    \E c \in Clients :
        /\ pc[c] = "done"
        /\ res[c].op = "await_up"
        /\ call[c].policy = DefaultPolicy
        /\ res[c].answered
        /\ res[c].probes = 3
        /\ Len(res[c].sleeps) = 2

\* C11: await_up always terminates: a call inside its retry loop comes to
\* its end; it issues at most max_retries probes; it raises the
\* store-unavailable error exactly after max_retries failed probes, the
\* readiness flag unset; and it returns normally only with an answered probe
\* or on a flag that was set before the call.
C11_AwaitUpTerminates ==
    /\ \A c \in Clients : pc[c] = "aw_loop" ~> pc[c] = "done"
    /\ [](\A c \in Clients :
            /\ pc[c] = "aw_loop"
                    => /\ call[c].attempt <= call[c].policy.max_retries + 1
                       /\ Len(call[c].sleeps) = call[c].attempt - 1
                       /\ ~ready[c]
            /\ (pc[c] = "done" /\ res[c].op = "await_up")
                    => /\ res[c].probes <= call[c].policy.max_retries
                       /\ res[c].err = "Unavailable"
                            => /\ res[c].probes = call[c].policy.max_retries
                               /\ ~res[c].answered
                               /\ ~ready[c]
                       /\ res[c].err = "none" => ready[c])
    /\ [][\A c \in Clients :
            (Ends(c, "await_up") /\ res'[c].err = "none" /\ ~ready[c])
                => (res'[c].answered /\ res'[c].probes >= 1)]_vars

\* C11's case: under the default policy every probe failed and await_up
\* raised after the 30th.
C11_Witness ==
    \E c \in Clients :
        /\ pc[c] = "done"
        /\ res[c].op = "await_up"
        /\ res[c].err = "Unavailable"
        /\ call[c].policy = DefaultPolicy
        /\ res[c].probes = DefaultMaxRetries
        /\ ~ready[c]

\* C15: a client has at most one connection that it opened and did not
\* close.
C15_AtMostOneLive == \A c \in Clients : Live(c) <= 1

\* C12: the only error await_up raises is the store-unavailable error: a
\* failure to open a connection during the call, on the first connect() as
\* on a reconnection, is swallowed and retried.
C12_OnlyUnavailableRaised ==
    \A c \in Clients :
        (pc[c] = "done" /\ res[c].op = "await_up") => res[c].err \in {"none", "Unavailable"}

\* The head of a store operation has nothing to do for client c: the handle
\* is open and the schema bootstrap done.
PreambleIdle(c) == conn[c] = "open" /\ tables_created[c]

\* What get_chat answers when it returns: the sentinel for an id without
\* chat, and the sentinel when its SELECT failed.
GetChatCollapses(c) ==
    /\ (res'[c].err = "none" /\ call'[c].chat_id \notin DOMAIN chats) => res'[c].val = NotFound
    /\ (PreambleIdle(c) /\ ~StoreAnswers) => (res'[c].err = "none" /\ res'[c].val = NotFound)

\* C13 as stated: get_chat never raises: it gives the sentinel for an absent
\* chat and for every store error that occurs during the call.
C13_AsStated ==
    [][\A c \in Clients :
        Ends(c, "get_chat") => (res'[c].err = "none" /\ GetChatCollapses(c))]_vars

\* C13: get_chat gives the sentinel for an absent chat and for an error of
\* its SELECT statement; the only errors it raises are those of the
\* reconnection and of the schema bootstrap at its head, which it raises
\* only when a round trip failed.
C13_GetChatCollapse ==
    [][\A c \in Clients :
        Ends(c, "get_chat")
            => /\ res'[c].err \in {"none", "ConnectError", "BootstrapError"}
               /\ res'[c].err # "none" => (~StoreAnswers /\ ~PreambleIdle(c))
               /\ GetChatCollapses(c)]_vars

\* C13's case: get_chat gave the sentinel for a chat that is stored: its
\* SELECT failed.
C13_Witness ==
    \E c \in Clients :
        /\ pc[c] = "done"
        /\ res[c].op = "get_chat"
        /\ res[c].err = "none"
        /\ res[c].val = NotFound
        /\ call[c].chat_id \in DOMAIN chats

\* C14: in get_messages, add_message and delete_chat, a statement of the
\* call that fails makes the call raise the store's error: the call neither
\* returns nor raises "chat not found".  (The client is ready, its handle
\* open and its schema bootstrapped before the step, so that the failing
\* round trip is a data statement of the call, the lookup included.)
C14_StoreErrorsReraised ==
    [][\A c \in Clients :
        (/\ pc[c] # "done"
         /\ pc'[c] = "done"
         /\ res'[c].op \in {"get_messages", "add_message", "delete_chat"}
         /\ PreambleIdle(c)
         /\ ready[c]
         /\ ~StoreAnswers)
            => res'[c].err \notin {"none", "ChatNotFound"}]_vars

StoreOps == {"create_chat", "add_message", "get_chat", "get_messages", "delete_chat"}

\* Client c enters a store operation in this step.
Enters(c) == pc[c] = "idle" /\ pc'[c] # "idle" /\ call'[c].op \in StoreOps

\* The call client c entered ends at its head, on an error of the
\* reconnection or of the bootstrap, before any data statement.
StopsAtHead(c) ==
    /\ pc'[c] = "done"
    /\ res'[c].err \in {"ConnectError", "BootstrapError"}
    /\ UNCHANGED dbVars

\* connect() that fails to open a connection re-raises and leaves the handle
\* and both flags; a store operation on a client whose bootstrap flag is
\* unset bootstraps before its statement, or stops at its head.
ConnectFailureAndRetry(c) ==
    /\ (Ends(c, "connect") /\ res'[c].err # "none")
            => /\ res'[c].err = "ConnectError"
               /\ conn'[c] = conn[c]
               /\ tables_created'[c] = tables_created[c]
               /\ ready'[c] = ready[c]
    /\ (Enters(c) /\ ~tables_created[c]) => (tables_created'[c] \/ StopsAtHead(c))

\* C16 as stated: the two failure modes of connect(), the second (the
\* connection opens, the bootstrap fails) returning normally with the handle
\* open and the bootstrap flag unset.
C16_AsStated ==
    [][\A c \in Clients :
        /\ ConnectFailureAndRetry(c)
        /\ (Ends(c, "connect") /\ res'[c].err = "none") => conn'[c] = "open"]_vars

\* C16: the two failure modes of connect(), the second returning normally
\* with the bootstrap flag unset and the handle set to the new connection,
\* which is open unless the failure that stopped the bootstrap also broke
\* the connection.
C16_ConnectFailureModes ==
    [][\A c \in Clients :
        /\ ConnectFailureAndRetry(c)
        /\ (Ends(c, "connect") /\ res'[c].err = "none")
                => /\ conn'[c] \in {"open", "closed"}
                   /\ conn'[c] = "closed" => (~StoreAnswers /\ ~tables_created'[c])
                   /\ (~tables_created[c] /\ StoreAnswers) => tables_created'[c]]_vars

\* C16's case: connect() has returned normally with the handle open and the
\* bootstrap flag unset.
C16_Witness ==
    \E c \in Clients :
        /\ pc[c] = "done"
        /\ res[c].op = "connect"
        /\ res[c].err = "none"
        /\ conn[c] = "open"
        /\ ~tables_created[c]

\* C17: a store operation executes no data statement before it has the
\* handle open and the bootstrap flag true: a call that does not stop at its
\* head on an error of the reconnection or of the bootstrap (having changed
\* no row) has the flag true, and the handle open when the store answered;
\* the later statements of a call run with the handle open and the flag
\* true.
C17_NoStatementBeforeHead ==
    /\ [][\A c \in Clients :
            Enters(c)
                => \/ StopsAtHead(c)
                   \/ /\ pc'[c] = "done" => res'[c].err \notin {"ConnectError", "BootstrapError"}
                      /\ tables_created'[c]
                      /\ StoreAnswers => conn'[c] = "open"]_vars
    /\ [](\A c \in Clients :
            pc[c] \in {"am_update", "am_insert", "dc_delete"}
                => (conn[c] = "open" /\ tables_created[c]))

\* C17's case: a store operation reconnected, failed to bootstrap and raised
\* without a data statement.
C17_Witness ==
    \E c \in Clients :
        /\ pc[c] = "done"
        /\ res[c].op \in StoreOps
        /\ res[c].err = "BootstrapError"
        /\ conn[c] = "open"
        /\ ~tables_created[c]

\* C18: the bootstrap flag never falls; connect() raises it only when every
\* bootstrap statement succeeded; and once it is set, connect() runs no
\* bootstrap statement: when it opens the connection nothing in it fails.
C18_BootstrapFlagMonotone ==
    [][\A c \in Clients :
        /\ tables_created[c] => tables_created'[c]
        /\ (~tables_created[c] /\ tables_created'[c])
                => /\ pc[c] = "idle"
                   /\ pc'[c] # "idle"
                   /\ call'[c].op \in StoreOps \cup {"connect"}
        /\ (Ends(c, "connect") /\ ~tables_created[c] /\ tables_created'[c])
                => (StoreAnswers /\ res'[c].err = "none" /\ conn'[c] = "open")
        /\ (Ends(c, "connect") /\ tables_created[c] /\ res'[c].err = "none")
                => (StoreAnswers /\ conn'[c] = "open")]_vars

\* C18's case: the flag is set, the handle closed, and a reconnection has
\* just failed.
C18_Witness ==
    \E c \in Clients :
        /\ pc[c] = "done"
        /\ res[c].op = "connect"
        /\ res[c].err = "ConnectError"
        /\ conn[c] = "closed"
        /\ tables_created[c]

\* The sum of a sequence of dyadic rationals, over their largest
\* denominator.
RatSum(sl) ==
    LET D == IF sl = << >> THEN 1
             ELSE CHOOSE d \in {sl[i].d : i \in DOMAIN sl} : \A i \in DOMAIN sl : sl[i].d <= d
        num[k \in 0..Len(sl)] == IF k = 0 THEN 0 ELSE num[k - 1] + sl[k].n * (D \div sl[k].d)
    IN Rat(num[Len(sl)], D)

\* await_up under the default policy has raised the store-unavailable error.
DefaultExhausted(c) ==
    /\ pc[c] = "done"
    /\ res[c].op = "await_up"
    /\ call[c].policy = DefaultPolicy
    /\ res[c].err = "Unavailable"

\* C19 as stated: under the default policy the sleeps of an await_up call
\* in which every probe fails add up to roughly 170 s (here: to 170 s give
\* or take a quarter of it, 127.5 s to 212.5 s).
C19_AsStated ==
    \A c \in Clients :
        DefaultExhausted(c)
            => /\ RatLE(Rat(255, 2), RatSum(res[c].sleeps))
               /\ RatLE(RatSum(res[c].sleeps), Rat(425, 2))

\* C19: under the default policy an await_up call in which every probe fails
\* sleeps 30 times, 260.78125 s in all (8345/32: the six sleeps 1, 1.5,
\* 2.25, 3.375, 5.0625, 7.59375 below the cap and 24 sleeps of 10).
C19_TotalSleep ==
    \A c \in Clients :
        DefaultExhausted(c)
            => /\ Len(res[c].sleeps) = DefaultMaxRetries
               /\ RatEq(RatSum(res[c].sleeps), Rat(8345, 32))

\* C19's case: the default policy exhausted, its last sleep at the cap.
C19_Witness ==
    \E c \in Clients :
        /\ DefaultExhausted(c)
        /\ res[c].sleeps # << >>
        /\ res[c].sleeps[Len(res[c].sleeps)] = Rat(DefaultMaxDelay, 1)

\* C20: no message row is without its chat row; a stored message row is
\* never changed; and it goes only in a step that removes its chat row.
C20_MessagesFollowChats ==
    /\ [](\A m \in messages : m.chat_id \in DOMAIN chats)
    /\ [][/\ \A m \in messages :
                \/ m \in messages'
                \/ (m.chat_id \in DOMAIN chats /\ m.chat_id \notin DOMAIN chats')
          /\ \A m \in messages, n \in messages' :
                (n.chat_id = m.chat_id /\ n.id = m.id) => n = m]_vars

\* C20's case: a delete_chat landed between an add_message call's UPDATE
\* and its INSERT, which the store refused.
C20_Witness ==
    \E c \in Clients :
        /\ pc[c] = "done"
        /\ res[c].op = "add_message"
        /\ res[c].err = "ForeignKeyViolation"
        /\ call[c].chat_id \notin DOMAIN chats
        /\ call[c].rows_updated = 1

====
